---- MODULE Spec2Model ----
(***************************************************************************)
(* A model of the chat backend in src/main.go.  The file holds two builds  *)
(* of the same server: the in-memory build (lines 1-241: Go slices and a   *)
(* map guarded by three mutexes) and the SQL build (lines 243-633: the     *)
(* same handlers over a MySQL database).  The variable `variant` says      *)
(* which build a behaviour runs; it is chosen in Init and never changes.   *)
(*                                                                         *)
(* Every HTTP request runs in a goroutine of its own (gin/net/http), so    *)
(* the handlers are modelled as processes that interleave at every access  *)
(* to shared state: the lobbies, messages and senders collections, the     *)
(* message id counter and the three mutexes.                               *)
(*                                                                         *)
(* Not modelled: message.Timestamp (time.Now, no handler reads it), the    *)
(* JSON field names, and BindJSON failures (a request that does not parse  *)
(* returns 400 before it touches any state).                               *)
(***************************************************************************)
EXTENDS Integers, Sequences, FiniteSets, TLC

\* ---------------------------------------------------------------- constants
LOBBY_ID_LENGTH == 6
MAX_MSG_LEN == 512
MAX_USERNAME_LEN == 32
\* `attempts := 10` in createLobby
MaxAttempts == 10

\* ------------------------------------------------------------------- bounds
\* total number of requests served in one behaviour
MaxCalls == 4

\* the goroutines that serve requests
Procs == {1, 2}

\* the ids randSeq can draw: a two-element pool out of the 26^6 ids
Pool == {"aaaaaa", "zzzzzz"}

RECURSIVE Repeat(_, _)
Repeat(c, n) ==
  IF n = 0 THEN ""
  ELSE LET half == Repeat(c, n \div 2)
       IN IF n % 2 = 0 THEN half \o half ELSE half \o half \o c

ShortName == "bob"
LongName == Repeat("n", MAX_USERNAME_LEN + 1)
Names == {ShortName, LongName}

ShortBody == "hi"
LongBody == Repeat("x", MAX_MSG_LEN + 1)
Bodies == {ShortBody, LongBody}

VARIABLES
  variant,        \* "mem" or "sql": which build runs
  lobbies,        \* var lobbies map[string]bool / table lobbies
  messages,       \* var messages []message    / table message
  senders,        \* var senders []sender      / table sender
  nextMessageId,  \* var nextMessageId         / the message table's row id
  msgMutex,       \* TRUE when locked
  lobbyMutex,
  senderMutex,
  crashed,        \* the Go runtime has aborted the process
  pc,             \* pc[p]: where goroutine p is in its handler
  req,            \* req[p]: the request p serves
  loc,            \* loc[p]: the handler's local variables
  resp,           \* resp[p]: what the handler wrote to the response so far
  held,           \* held[p]: the mutexes p's handler locked and has not unlocked
  calls,          \* number of requests accepted so far
  issued          \* issued[id]: number of 201 responses of createLobby with id

vars == <<variant, lobbies, messages, senders, nextMessageId, msgMutex,
          lobbyMutex, senderMutex, crashed, pc, req, loc, resp, held, calls,
          issued>>

store == <<lobbies, messages, senders, nextMessageId>>
mutexes == <<msgMutex, lobbyMutex, senderMutex, held>>

\* -------------------------------------------------------------------- types
\* type message struct (Timestamp left out)
Message(id, lobbyId, senderName, body) ==
  [Id |-> id, LobbyId |-> lobbyId, SenderName |-> senderName, MessageString |-> body]

\* type sender struct
Sender(name, lobbyId, typing) ==
  [Username |-> name, LobbyId |-> lobbyId, IsTyping |-> typing]

\* the zero value of message, as a racing reader may see a slot
ZeroMessage == Message(0, "", "", "")
ZeroSender == Sender("", "", FALSE)

\* The requests the router accepts.  Every join supplies isTyping = true, the
\* value a new sender must not keep; typing updates name ShortName, who is
\* absent from every lobby he has not joined.
Request(op, lobbyId, name, body, typing) ==
  [op |-> op, LobbyId |-> lobbyId, Username |-> name, MessageString |-> body,
   IsTyping |-> typing]

Requests ==
  {Request("createLobby", "", "", "", FALSE)}
  \cup {Request("fetchLobbyData", l, "", "", FALSE) : l \in Pool}
  \cup {Request("lobbyExists", l, "", "", FALSE) : l \in Pool}
  \cup {Request("postMessage", l, ShortName, b, FALSE) : l \in Pool, b \in Bodies}
  \cup {Request("enterLobby", l, n, "", TRUE) : l \in Pool, n \in Names}
  \cup {Request("updateTyping", l, ShortName, "", t) : l \in Pool, t \in BOOLEAN}

NoRequest == Request("", "", "", "", FALSE)

\* the handler's locals
NoLocals ==
  [id |-> "", attempts |-> 0, add |-> FALSE, found |-> FALSE, i |-> 0,
   mid |-> 0, err |-> FALSE, msgs |-> <<>>, sndrs |-> <<>>]

\* one write to the response: c.JSON / c.IndentedJSON
Write(code, kind, message, id, msgs, sndrs, ok) ==
  [code |-> code, kind |-> kind, message |-> message, id |-> id, msgs |-> msgs,
   sndrs |-> sndrs, ok |-> ok]
\* gin.H{"message": ..}
ErrorBody(code, message) == Write(code, "error", message, "", <<>>, <<>>, FALSE)
\* a lobbyData
ViewBody(code, id, msgs, sndrs) == Write(code, "view", "", id, msgs, sndrs, TRUE)
\* the id of a new lobby
IdBody(code, id) == Write(code, "id", "", id, <<>>, <<>>, TRUE)
\* true / false of lobbyExists
BoolBody(code, b) == Write(code, "bool", "", "", <<>>, <<>>, b)
\* struct{}{} of updateTyping
AckBody(code) == Write(code, "ack", "", "", <<>>, <<>>, TRUE)

\* the texts of the error responses
LobbyNotFound == "lobby not found"
NoLobbyForMessage == "Message did not belong to a lobby!"
MessageTooLong == "Message is too long!"
LobbyDoesNotExist == "Lobby does not exist!"
UsernameTooLong == "Username is too long!"
NoUniqueId == "Failed to generate unique id string!"
SenderNotFound == "Could not find sender to update!"
\* err.Error() of a failed database statement
DbError == "database error"

\* the status the client sees is the one of the first write
Status(p) == IF resp[p] = <<>> THEN 0 ELSE resp[p][1].code

\* ------------------------------------------------------------------ helpers
\* func randSeq: a string of n letters
randSeq(n) == {s \in Pool : Len(s) = n}

\* doesLobbyExist without the lookup: every id is taken to exist
doesLobbyExist_Always(id) == TRUE

\* func doesLobbyExist
doesLobbyExist(id) == id \in lobbies

\* the filter on the lobby id left out: every stored message is included
includedMsgs_All(seq, id) == seq

\* the loops of constructLobbyData / getMessagesFor / getSendersFor
includedMsgs(seq, id) == SelectSeq(seq, LAMBDA m : m.LobbyId = id)
includedSenders(seq, id) == SelectSeq(seq, LAMBDA s : s.LobbyId = id)

\* the duplicate check left out of a join
senderExists_Never(name, lobbyId) == FALSE

\* the scan of enterLobby / func senderExists
senderExists(name, lobbyId) ==
  \E i \in 1..Len(senders) :
    senders[i].LobbyId = lobbyId /\ senders[i].Username = name

Front(seq) == SubSeq(seq, 1, Len(seq) - 1)

\* What a read of a slice returns.  A read that races with an append in
\* another goroutine (a data race) may see the slice before the append, after
\* it, or a new length over a slot that is not written yet.
RacyRead(seq, racing, zero) ==
  IF racing /\ seq # <<>>
  THEN {seq, Front(seq), Append(Front(seq), zero)}
  ELSE {seq}

SetPc(p, l) == pc' = [pc EXCEPT ![p] = l]
Respond(p, w) == resp' = [resp EXCEPT ![p] = Append(@, w)]
Running(p) == ~crashed
\* m.Lock() has returned in p's handler / p's handler has called m.Unlock()
Acquire(p, m) == held' = [held EXCEPT ![p] = @ \cup {m}]
Release(p, m) == held' = [held EXCEPT ![p] = @ \ {m}]

\* ---------------------------------------------------------------------- Init
Init ==
  /\ variant \in {"mem", "sql"}
  /\ lobbies = {}
  /\ messages = <<>>
  /\ senders = <<>>
  /\ nextMessageId = 1
  /\ msgMutex = FALSE
  /\ lobbyMutex = FALSE
  /\ senderMutex = FALSE
  /\ crashed = FALSE
  /\ pc = [p \in Procs |-> "idle"]
  /\ req = [p \in Procs |-> NoRequest]
  /\ loc = [p \in Procs |-> NoLocals]
  /\ resp = [p \in Procs |-> <<>>]
  /\ held = [p \in Procs |-> {}]
  /\ calls = 0
  /\ issued = [id \in Pool |-> 0]

\* the first label of each handler
Entry(op) ==
  CASE op = "createLobby" -> "cl_lock"
    [] op = "fetchLobbyData" -> "cld_exists"
    [] op = "lobbyExists" -> "le_check"
    [] op = "postMessage" -> "pm_check"
    [] op = "enterLobby" -> "el_check"
    [] op = "updateTyping" -> "ut_lock"

\* the router hands a request to a goroutine
Call(p) ==
  /\ Running(p)
  /\ pc[p] \in {"idle", "done"}
  /\ calls < MaxCalls
  /\ \E r \in Requests :
       /\ req' = [req EXCEPT ![p] = r]
       /\ SetPc(p, Entry(r.op))
  /\ loc' = [loc EXCEPT ![p] = NoLocals]
  /\ resp' = [resp EXCEPT ![p] = <<>>]
  /\ held' = [held EXCEPT ![p] = {}]
  /\ calls' = calls + 1
  /\ UNCHANGED <<variant, store, msgMutex, lobbyMutex, senderMutex, crashed,
                 issued>>

\* --------------------------------------------------------------- data races
\* The in-memory build reads lobbies, messages and senders without the mutex
\* their writers hold.  A write is in progress while its writer is at the
\* label that follows it.
LobbiesRacing(p) ==
  variant = "mem" /\ \E q \in Procs \ {p} : pc[q] = "cl_writing"
MsgsRacing(p) ==
  variant = "mem" /\ \E q \in Procs \ {p} : pc[q] = "pm_appending"
SendersRacing(p) ==
  variant = "mem" /\ \E q \in Procs \ {p} : pc[q] = "el_appending"

\* the labels at which the next step of a handler reads the lobbies map
LobbyReadLabels == {"cld_exists", "pm_check", "el_check", "le_check"}

\* A map read concurrent with a map write: the Go runtime may detect it and
\* abort the process ("fatal error: concurrent map read and map write").
MapRaceFault(p) ==
  /\ Running(p)
  /\ pc[p] \in LobbyReadLabels
  /\ LobbiesRacing(p)
  /\ crashed' = TRUE
  /\ UNCHANGED <<variant, store, mutexes, pc, req, loc, resp, calls, issued>>

\* ------------------------------------------------------- constructLobbyData
\* where constructLobbyData returns to
RetLabel(op) ==
  CASE op = "fetchLobbyData" -> "f_ret"
    [] op = "postMessage" -> "pm_ret"
    [] op = "enterLobby" -> "el_ret"

\* if !doesLobbyExist(id) { return lobbyData{}, errors.New("lobby not found") }
CldExists(p) ==
  /\ Running(p)
  /\ pc[p] = "cld_exists"
  /\ IF doesLobbyExist(req[p].LobbyId)
     THEN /\ SetPc(p, "cld_msgs")
          /\ UNCHANGED loc
     ELSE /\ SetPc(p, RetLabel(req[p].op))
          /\ loc' = [loc EXCEPT ![p].err = TRUE]
  /\ UNCHANGED <<variant, store, mutexes, crashed, req, resp, calls, issued>>

\* for _, m := range messages { ... }  /  getMessagesFor(id)
CldMsgs(p) ==
  /\ Running(p)
  /\ pc[p] = "cld_msgs"
  /\ \E seen \in RacyRead(messages, MsgsRacing(p), ZeroMessage) :
       loc' = [loc EXCEPT ![p].msgs = includedMsgs(seen, req[p].LobbyId)]
  /\ SetPc(p, "cld_senders")
  /\ UNCHANGED <<variant, store, mutexes, crashed, req, resp, calls, issued>>

\* for _, s := range senders { ... }  /  getSendersFor(id)
CldSenders(p) ==
  /\ Running(p)
  /\ pc[p] = "cld_senders"
  /\ \E seen \in RacyRead(senders, SendersRacing(p), ZeroSender) :
       loc' = [loc EXCEPT ![p].sndrs = includedSenders(seen, req[p].LobbyId)]
  /\ SetPc(p, RetLabel(req[p].op))
  /\ UNCHANGED <<variant, store, mutexes, crashed, req, resp, calls, issued>>

\* the lobbyData a handler serialises
ViewOf(p, code) == ViewBody(code, req[p].LobbyId, loc[p].msgs, loc[p].sndrs)

\* ----------------------------------------------------------- fetchLobbyData
FetchRet(p) ==
  /\ Running(p)
  /\ pc[p] = "f_ret"
  /\ Respond(p, IF loc[p].err THEN ErrorBody(404, LobbyNotFound) ELSE ViewOf(p, 200))
  /\ SetPc(p, "done")
  /\ UNCHANGED <<variant, store, mutexes, crashed, req, loc, calls, issued>>

\* -------------------------------------------------------------- lobbyExists
LeCheck(p) ==
  /\ Running(p)
  /\ pc[p] = "le_check"
  /\ Respond(p, BoolBody(200, doesLobbyExist(req[p].LobbyId)))
  /\ SetPc(p, "done")
  /\ UNCHANGED <<variant, store, mutexes, crashed, req, loc, calls, issued>>

\* -------------------------------------------------------------- postMessage
\* the SQL build checks len(msg.MessageString) > MAX_MSG_LEN first; the
\* in-memory build has no length check
BodyTooLong(p) == variant = "sql" /\ Len(req[p].MessageString) > MAX_MSG_LEN

\* postMessage without the lobby check
PmCheck_NoLobbyCheck(p) ==
  /\ Running(p)
  /\ pc[p] = "pm_check"
  /\ IF BodyTooLong(p)
     THEN /\ Respond(p, ErrorBody(400, MessageTooLong))
          /\ SetPc(p, "done")
     ELSE /\ SetPc(p, "pm_lock")
          /\ UNCHANGED resp
  /\ UNCHANGED <<variant, store, mutexes, crashed, req, loc, calls, issued>>

PmCheck(p) ==
  /\ Running(p)
  /\ pc[p] = "pm_check"
  /\ IF BodyTooLong(p)
     THEN /\ Respond(p, ErrorBody(400, MessageTooLong))
          /\ SetPc(p, "done")
     ELSE IF ~doesLobbyExist(req[p].LobbyId)
     THEN /\ Respond(p, ErrorBody(400, NoLobbyForMessage))
          /\ SetPc(p, "done")
     ELSE /\ SetPc(p, "pm_lock")
          /\ UNCHANGED resp
  /\ UNCHANGED <<variant, store, mutexes, crashed, req, loc, calls, issued>>

\* postMessage locking senderMutex as well, for the view's read of senders
PmLock_AlsoSenderMutex(p) ==
  /\ Running(p)
  /\ pc[p] = "pm_lock"
  /\ ~msgMutex
  /\ ~senderMutex
  /\ msgMutex' = TRUE
  /\ senderMutex' = TRUE
  /\ held' = [held EXCEPT ![p] = @ \cup {"msgMutex", "senderMutex"}]
  /\ SetPc(p, "pm_append")
  /\ UNCHANGED <<variant, store, lobbyMutex, crashed, req, loc, resp, calls,
                 issued>>

\* msgMutex.Lock()
PmLock(p) ==
  /\ Running(p)
  /\ pc[p] = "pm_lock"
  /\ ~msgMutex
  /\ msgMutex' = TRUE
  /\ Acquire(p, "msgMutex")
  /\ SetPc(p, "pm_append")
  /\ UNCHANGED <<variant, store, lobbyMutex, senderMutex, crashed, req, loc,
                 resp, calls, issued>>

\* the message as stored: the request's fields under the id given
Stored(p, id) ==
  Message(id, req[p].LobbyId, req[p].Username, req[p].MessageString)

\* postMessage without nextMessageId++
PmAppend_NoIncrement(p) ==
  /\ Running(p)
  /\ variant = "mem"
  /\ pc[p] = "pm_append"
  /\ loc' = [loc EXCEPT ![p].mid = nextMessageId]
  /\ messages' = Append(messages, Stored(p, nextMessageId))
  /\ SetPc(p, "pm_appending")
  /\ UNCHANGED <<variant, lobbies, senders, nextMessageId, mutexes, crashed, req,
                 resp, calls, issued>>

\* msg.Id = nextMessageId; nextMessageId++; messages = append(messages, msg)
PmAppend(p) ==
  /\ Running(p)
  /\ variant = "mem"
  /\ pc[p] = "pm_append"
  /\ loc' = [loc EXCEPT ![p].mid = nextMessageId]
  /\ nextMessageId' = nextMessageId + 1
  /\ messages' = Append(messages, Stored(p, nextMessageId))
  /\ SetPc(p, "pm_appending")
  /\ UNCHANGED <<variant, lobbies, senders, mutexes, crashed, req, resp, calls,
                 issued>>

\* the append is complete; constructLobbyData is called next
PmAppended(p) ==
  /\ Running(p)
  /\ pc[p] = "pm_appending"
  /\ SetPc(p, "cld_exists")
  /\ UNCHANGED <<variant, store, mutexes, crashed, req, loc, resp, calls, issued>>

\* The id the message table gives a new row.  The table is created outside
\* src/; its id column is taken to count the rows inserted, as spec.md
\* requires of message ids (section 3).
RowId == nextMessageId

\* postMessage of the SQL build dropping the error of a failed INSERT
appendMessage_ErrorDropped(p) ==
  /\ Running(p)
  /\ variant = "sql"
  /\ pc[p] = "pm_append"
  /\ \E ok \in BOOLEAN :
       IF ok
       THEN /\ loc' = [loc EXCEPT ![p].mid = RowId]
            /\ nextMessageId' = RowId + 1
            /\ messages' = Append(messages, Stored(p, RowId))
       ELSE UNCHANGED <<loc, nextMessageId, messages>>
  /\ SetPc(p, "cld_exists")
  /\ UNCHANGED <<variant, lobbies, senders, mutexes, crashed, req, resp, calls,
                 issued>>

\* func appendMessage of the SQL build: INSERT INTO message (lobbyId,
\* senderName, messageString, timestamp); the table gives the row its id.
\* On an error the handler writes 400 and goes on.
appendMessage(p) ==
  /\ Running(p)
  /\ variant = "sql"
  /\ pc[p] = "pm_append"
  /\ \E ok \in BOOLEAN :
       IF ok
       THEN /\ loc' = [loc EXCEPT ![p].mid = RowId]
            /\ nextMessageId' = RowId + 1
            /\ messages' = Append(messages, Stored(p, RowId))
            /\ UNCHANGED resp
       ELSE /\ Respond(p, ErrorBody(400, DbError))
            /\ UNCHANGED <<loc, nextMessageId, messages>>
  /\ SetPc(p, "cld_exists")
  /\ UNCHANGED <<variant, lobbies, senders, mutexes, crashed, req, calls, issued>>

\* the response, then the deferred msgMutex.Unlock()
PmRet(p) ==
  /\ Running(p)
  /\ pc[p] = "pm_ret"
  /\ Respond(p, IF loc[p].err THEN ErrorBody(400, LobbyNotFound) ELSE ViewOf(p, 201))
  /\ msgMutex' = FALSE
  /\ Release(p, "msgMutex")
  /\ SetPc(p, "done")
  /\ UNCHANGED <<variant, store, lobbyMutex, senderMutex, crashed, req, loc,
                 calls, issued>>

\* -------------------------------------------------------------- createLobby
\* lobbyMutex.Lock()
ClLock(p) ==
  /\ Running(p)
  /\ pc[p] = "cl_lock"
  /\ ~lobbyMutex
  /\ lobbyMutex' = TRUE
  /\ Acquire(p, "lobbyMutex")
  /\ SetPc(p, "cl_first")
  /\ UNCHANGED <<variant, store, msgMutex, senderMutex, crashed, req, loc, resp,
                 calls, issued>>

\* id = randSeq(LOBBY_ID_LENGTH); attempts := 10
ClFirst(p) ==
  /\ Running(p)
  /\ pc[p] = "cl_first"
  /\ \E c \in randSeq(LOBBY_ID_LENGTH) :
       loc' = [loc EXCEPT ![p].id = c, ![p].attempts = MaxAttempts]
  /\ SetPc(p, "cl_loop")
  /\ UNCHANGED <<variant, store, mutexes, crashed, req, resp, calls, issued>>

\* the retry loop stopping one attempt early
Retry_OffByOne(p) == doesLobbyExist(loc[p].id) /\ loc[p].attempts > 1

\* the condition of the retry loop
Retry(p) == doesLobbyExist(loc[p].id) /\ loc[p].attempts > 0

\* for doesLobbyExist(id) && attempts > 0 { id = randSeq(..); attempts -= 1 }
ClLoop(p) ==
  /\ Running(p)
  /\ pc[p] = "cl_loop"
  /\ Retry(p)
  /\ \E c \in randSeq(LOBBY_ID_LENGTH) :
       loc' = [loc EXCEPT ![p].id = c, ![p].attempts = @ - 1]
  /\ UNCHANGED <<variant, store, mutexes, crashed, pc, req, resp, calls, issued>>

\* if attempts == 0 { defer lobbyMutex.Unlock(); c.JSON(500, ..); return }
ClGiveUp(p) ==
  /\ Running(p)
  /\ pc[p] = "cl_loop"
  /\ ~Retry(p)
  /\ loc[p].attempts = 0
  /\ Respond(p, ErrorBody(500, NoUniqueId))
  /\ lobbyMutex' = FALSE
  /\ Release(p, "lobbyMutex")
  /\ SetPc(p, "done")
  /\ UNCHANGED <<variant, store, msgMutex, senderMutex, crashed, req, loc, calls,
                 issued>>

\* the map assigned anew rather than inserted into
ClStore_Replace(p) ==
  /\ Running(p)
  /\ variant = "mem"
  /\ pc[p] = "cl_loop"
  /\ ~Retry(p)
  /\ loc[p].attempts # 0
  /\ lobbies' = {loc[p].id}
  /\ SetPc(p, "cl_writing")
  /\ UNCHANGED <<variant, messages, senders, nextMessageId, mutexes, crashed,
                 req, loc, resp, calls, issued>>

\* lobbies[id] = true
ClStore(p) ==
  /\ Running(p)
  /\ variant = "mem"
  /\ pc[p] = "cl_loop"
  /\ ~Retry(p)
  /\ loc[p].attempts # 0
  /\ lobbies' = lobbies \cup {loc[p].id}
  /\ SetPc(p, "cl_writing")
  /\ UNCHANGED <<variant, messages, senders, nextMessageId, mutexes, crashed,
                 req, loc, resp, calls, issued>>

\* the map write is complete
ClWritten(p) ==
  /\ Running(p)
  /\ pc[p] = "cl_writing"
  /\ SetPc(p, "cl_ret")
  /\ UNCHANGED <<variant, store, mutexes, crashed, req, loc, resp, calls, issued>>

\* func insertLobby of the SQL build: INSERT INTO lobbies
insertLobby(p) ==
  /\ Running(p)
  /\ variant = "sql"
  /\ pc[p] = "cl_loop"
  /\ ~Retry(p)
  /\ loc[p].attempts # 0
  /\ \E ok \in BOOLEAN :
       IF ok
       THEN /\ lobbies' = lobbies \cup {loc[p].id}
            /\ UNCHANGED loc
       ELSE /\ loc' = [loc EXCEPT ![p].err = TRUE]
            /\ UNCHANGED lobbies
  /\ SetPc(p, "cl_ret")
  /\ UNCHANGED <<variant, messages, senders, nextMessageId, mutexes, crashed,
                 req, resp, calls, issued>>

\* c.JSON(201, id), after c.JSON(500, ..) when insertLobby failed (the SQL
\* build does not return there); then the deferred lobbyMutex.Unlock()
ClRet(p) ==
  /\ Running(p)
  /\ pc[p] = "cl_ret"
  /\ resp' = [resp EXCEPT ![p] =
                IF loc[p].err
                THEN <<ErrorBody(500, DbError), IdBody(201, loc[p].id)>>
                ELSE <<IdBody(201, loc[p].id)>>]
  /\ issued' = IF loc[p].err THEN issued
               ELSE [issued EXCEPT ![loc[p].id] = @ + 1]
  /\ lobbyMutex' = FALSE
  /\ Release(p, "lobbyMutex")
  /\ SetPc(p, "done")
  /\ UNCHANGED <<variant, store, msgMutex, senderMutex, crashed, req, loc, calls>>

\* --------------------------------------------------------------- enterLobby
\* the SQL build checks len(enterReq.Username) > MAX_USERNAME_LEN after the
\* lobby check; the in-memory build has no length check
NameTooLong(p) == variant = "sql" /\ Len(req[p].Username) > MAX_USERNAME_LEN

\* enterLobby without the lobby check
ElCheck_NoLobbyCheck(p) ==
  /\ Running(p)
  /\ pc[p] = "el_check"
  /\ IF NameTooLong(p)
     THEN /\ Respond(p, ErrorBody(400, UsernameTooLong))
          /\ SetPc(p, "done")
     ELSE /\ SetPc(p, "el_lock")
          /\ UNCHANGED resp
  /\ UNCHANGED <<variant, store, mutexes, crashed, req, loc, calls, issued>>

ElCheck(p) ==
  /\ Running(p)
  /\ pc[p] = "el_check"
  /\ IF ~doesLobbyExist(req[p].LobbyId)
     THEN /\ Respond(p, ErrorBody(400, LobbyDoesNotExist))
          /\ SetPc(p, "done")
     ELSE IF NameTooLong(p)
     THEN /\ Respond(p, ErrorBody(400, UsernameTooLong))
          /\ SetPc(p, "done")
     ELSE /\ SetPc(p, "el_lock")
          /\ UNCHANGED resp
  /\ UNCHANGED <<variant, store, mutexes, crashed, req, loc, calls, issued>>

\* a Lock() that does not wait for the mutex to be free
ElLock_NoWait(p) ==
  /\ Running(p)
  /\ pc[p] = "el_lock"
  /\ senderMutex' = TRUE
  /\ Acquire(p, "senderMutex")
  /\ SetPc(p, "el_add")
  /\ UNCHANGED <<variant, store, msgMutex, lobbyMutex, crashed, req, loc, resp,
                 calls, issued>>

\* senderMutex.Lock()
ElLock(p) ==
  /\ Running(p)
  /\ pc[p] = "el_lock"
  /\ ~senderMutex
  /\ senderMutex' = TRUE
  /\ Acquire(p, "senderMutex")
  /\ SetPc(p, "el_add")
  /\ UNCHANGED <<variant, store, msgMutex, lobbyMutex, crashed, req, loc, resp,
                 calls, issued>>

\* the request stored as it came, isTyping included
Joined_KeepTyping(p) == Sender(req[p].Username, req[p].LobbyId, req[p].IsTyping)

\* the sender a join stores: enterReq.IsTyping = false
Joined(p) == Sender(req[p].Username, req[p].LobbyId, FALSE)

\* add := true; for .. { if same lobby and name { add = false } }
ElAdd(p) ==
  /\ Running(p)
  /\ variant = "mem"
  /\ pc[p] = "el_add"
  /\ LET add == ~senderExists(req[p].Username, req[p].LobbyId) IN
       /\ loc' = [loc EXCEPT ![p].add = add]
       /\ SetPc(p, IF add THEN "el_append" ELSE "cld_exists")
  /\ UNCHANGED <<variant, store, mutexes, crashed, req, resp, calls, issued>>

\* if add { enterReq.IsTyping = false; senders = append(senders, enterReq) }
ElAppend(p) ==
  /\ Running(p)
  /\ variant = "mem"
  /\ pc[p] = "el_append"
  /\ senders' = Append(senders, Joined(p))
  /\ SetPc(p, "el_appending")
  /\ UNCHANGED <<variant, lobbies, messages, nextMessageId, mutexes, crashed,
                 req, loc, resp, calls, issued>>

\* the append is complete; constructLobbyData is called next
ElAppended(p) ==
  /\ Running(p)
  /\ pc[p] = "el_appending"
  /\ SetPc(p, "cld_exists")
  /\ UNCHANGED <<variant, store, mutexes, crashed, req, loc, resp, calls, issued>>

\* func addSender of the SQL build, up to the INSERT:
\*   if senderExists(enterReq) { return nil }
addSender(p) ==
  /\ Running(p)
  /\ variant = "sql"
  /\ pc[p] = "el_add"
  /\ LET add == ~senderExists(req[p].Username, req[p].LobbyId) IN
       /\ loc' = [loc EXCEPT ![p].add = add]
       /\ SetPc(p, IF add THEN "el_append" ELSE "cld_exists")
  /\ UNCHANGED <<variant, store, mutexes, crashed, req, resp, calls, issued>>

\* The INSERT INTO sender of addSender.  When it fails the handler writes 400
\* and returns before `defer senderMutex.Unlock()` is reached.
insertSender(p) ==
  /\ Running(p)
  /\ variant = "sql"
  /\ pc[p] = "el_append"
  /\ \E ok \in BOOLEAN :
       IF ok
       THEN /\ senders' = Append(senders, Joined(p))
            /\ SetPc(p, "cld_exists")
            /\ UNCHANGED <<loc, resp>>
       ELSE /\ Respond(p, ErrorBody(400, DbError))
            /\ loc' = [loc EXCEPT ![p].err = TRUE]
            /\ SetPc(p, "done")
            /\ UNCHANGED senders
  /\ UNCHANGED <<variant, lobbies, messages, nextMessageId, mutexes, crashed,
                 req, calls, issued>>

\* the response, then the deferred senderMutex.Unlock()
ElRet(p) ==
  /\ Running(p)
  /\ pc[p] = "el_ret"
  /\ Respond(p, IF loc[p].err THEN ErrorBody(400, LobbyNotFound) ELSE ViewOf(p, 200))
  /\ senderMutex' = FALSE
  /\ Release(p, "senderMutex")
  /\ SetPc(p, "done")
  /\ UNCHANGED <<variant, store, msgMutex, lobbyMutex, crashed, req, loc, calls,
                 issued>>

\* ------------------------------------------------------------- updateTyping
\* senderMutex.Lock(); found := false; i := 0
UtLock(p) ==
  /\ Running(p)
  /\ pc[p] = "ut_lock"
  /\ ~senderMutex
  /\ senderMutex' = TRUE
  /\ Acquire(p, "senderMutex")
  /\ SetPc(p, "ut_scan")
  /\ UNCHANGED <<variant, store, msgMutex, lobbyMutex, crashed, req, loc, resp,
                 calls, issued>>

\* the comparison of the lobby id left out
Matches_NameOnly(p, i) == senders[i + 1].Username = req[p].Username

\* senders[i].Username == request.Username && senders[i].LobbyId == request.LobbyId
\* (Go indexes from 0, the sequence from 1)
Matches(p, i) ==
  /\ senders[i + 1].Username = req[p].Username
  /\ senders[i + 1].LobbyId = req[p].LobbyId

\* The head of
\*   for i := 0; i < len(senders); { if match { set; found = true; break } }
UtScan(p) ==
  /\ Running(p)
  /\ variant = "mem"
  /\ pc[p] = "ut_scan"
  /\ SetPc(p, IF loc[p].i < Len(senders) THEN "ut_body" ELSE "ut_ret")
  /\ UNCHANGED <<variant, store, mutexes, crashed, req, loc, resp, calls, issued>>

\* The body of the loop.  The loop has no post statement: when senders[i]
\* does not match, control is back at the head with i as it was.
UtBody(p) ==
  /\ Running(p)
  /\ pc[p] = "ut_body"
  /\ IF Matches(p, loc[p].i)
     THEN /\ senders' = [senders EXCEPT ![loc[p].i + 1].IsTyping = req[p].IsTyping]
          /\ loc' = [loc EXCEPT ![p].found = TRUE]
          /\ SetPc(p, "ut_ret")
     ELSE /\ SetPc(p, "ut_scan")
          /\ UNCHANGED <<senders, loc>>
  /\ UNCHANGED <<variant, lobbies, messages, nextMessageId, mutexes, crashed,
                 req, resp, calls, issued>>

\* func setTyping of the SQL build:
\*   UPDATE sender SET isTyping = ? WHERE lobbyId = ? AND name = ?
\* An UPDATE that matches no row is not an error.
setTyping(p) ==
  /\ Running(p)
  /\ variant = "sql"
  /\ pc[p] = "ut_scan"
  /\ \E ok \in BOOLEAN :
       IF ok
       THEN /\ senders' = [k \in 1..Len(senders) |->
                             IF Matches(p, k - 1)
                             THEN [senders[k] EXCEPT !.IsTyping = req[p].IsTyping]
                             ELSE senders[k]]
            /\ UNCHANGED loc
       ELSE /\ loc' = [loc EXCEPT ![p].err = TRUE]
            /\ UNCHANGED senders
  /\ SetPc(p, "ut_ret")
  /\ UNCHANGED <<variant, lobbies, messages, nextMessageId, mutexes, crashed,
                 req, resp, calls, issued>>

\* whether the handler answers 200: `found` in the in-memory build,
\* `err == nil` in the SQL build
UtOk(p) == IF variant = "mem" THEN loc[p].found ELSE ~loc[p].err

\* the response, then the deferred senderMutex.Unlock()
UtRet(p) ==
  /\ Running(p)
  /\ pc[p] = "ut_ret"
  /\ Respond(p, IF UtOk(p) THEN AckBody(200)
                ELSE ErrorBody(404, IF variant = "mem" THEN SenderNotFound ELSE DbError))
  /\ senderMutex' = FALSE
  /\ Release(p, "senderMutex")
  /\ SetPc(p, "done")
  /\ UNCHANGED <<variant, store, msgMutex, lobbyMutex, crashed, req, loc, calls,
                 issued>>

\* --------------------------------------------------------------------- Next
\* the steps of a handler, as opposed to the arrival of a request
Step(p) ==
  \/ CldExists(p) \/ CldMsgs(p) \/ CldSenders(p)
  \/ FetchRet(p)
  \/ LeCheck(p)
  \/ PmCheck(p) \/ PmLock(p) \/ PmAppend(p) \/ PmAppended(p)
  \/ appendMessage(p) \/ PmRet(p)
  \/ ClLock(p) \/ ClFirst(p) \/ ClLoop(p) \/ ClGiveUp(p) \/ ClStore(p)
  \/ ClWritten(p) \/ insertLobby(p) \/ ClRet(p)
  \/ ElCheck(p) \/ ElLock(p) \/ ElAdd(p) \/ ElAppend(p) \/ ElAppended(p)
  \/ addSender(p) \/ insertSender(p) \/ ElRet(p)
  \/ UtLock(p) \/ UtScan(p) \/ UtBody(p) \/ setTyping(p) \/ UtRet(p)

Next == \E p \in Procs : Call(p) \/ Step(p) \/ MapRaceFault(p)

Spec == Init /\ [][Next]_vars

\* Every goroutine that can run is eventually scheduled.
FairSpec == Spec /\ \A p \in Procs : WF_vars(Step(p))

TypeOK ==
  /\ variant \in {"mem", "sql"}
  /\ lobbies \subseteq Pool
  /\ nextMessageId \in 1..(MaxCalls + 1)
  /\ msgMutex \in BOOLEAN /\ lobbyMutex \in BOOLEAN /\ senderMutex \in BOOLEAN
  /\ held \in [Procs -> SUBSET {"msgMutex", "lobbyMutex", "senderMutex"}]
  /\ calls \in 0..MaxCalls

\* =================================================================== claims
\* p has finished serving a request of kind op
Finished(p, op) == pc[p] = "done" /\ req[p].op = op

\* the senders collection holds a record for (name, lobbyId)
HasSender(name, lobbyId) ==
  \E i \in 1..Len(senders) :
    senders[i].Username = name /\ senders[i].LobbyId = lobbyId

C5_MessageIds == \A k \in 1..Len(messages) : messages[k].Id = k

\* two messages committed to two different lobbies
C5_Witness ==
  /\ Len(messages) = 2
  /\ messages[1].LobbyId # messages[2].LobbyId

\* ----------------------------------------------------------------------- C6
\* C6: the view a successful postMessage returns holds the message the call
\* stored: its lobby id, sender name, body and assigned id.
C6_ReadYourWrites ==
  \A p \in Procs :
    (Finished(p, "postMessage") /\ Status(p) = 201)
      => /\ resp[p][1].kind = "view"
         /\ loc[p].mid >= 1
         /\ \E k \in 1..Len(resp[p][1].msgs) :
              resp[p][1].msgs[k] =
                Message(loc[p].mid, req[p].LobbyId, req[p].Username,
                        req[p].MessageString)

\* a successful postMessage into a lobby that already held a message
C6_Witness ==
  \E p \in Procs :
    /\ Finished(p, "postMessage")
    /\ Status(p) = 201
    /\ Len(resp[p][1].msgs) = 2

\* ----------------------------------------------------------------------- C7
\* the first step of postMessage or enterLobby, taken for a lobby id that is
\* not in lobbies
RejectsUnknownLobby(p) ==
  /\ pc[p] \in {"pm_check", "el_check"}
  /\ pc'[p] # pc[p]
  /\ req[p].LobbyId \notin lobbies

\* the unknown-lobby error of the handler p runs
UnknownLobby(p) ==
  ErrorBody(400, IF req[p].op = "postMessage" THEN NoLobbyForMessage
                 ELSE LobbyDoesNotExist)

\* C7 as claimed: postMessage or enterLobby naming a lobby that does not exist
\* answers with the unknown-lobby error and leaves lobbies, messages, senders
\* and the id counter as they were.
C7_Original ==
  [][\A p \in Procs :
       RejectsUnknownLobby(p)
         => /\ pc'[p] = "done"
            /\ resp'[p] = <<UnknownLobby(p)>>
            /\ UNCHANGED store]_vars

\* C7 as amended: such a call answers 400 and leaves lobbies, messages,
\* senders and the id counter as they were; the error is the unknown-lobby
\* error, except that postMessage of the SQL build reports a body of more than
\* 512 characters first.
C7_UnknownLobby ==
  [][\A p \in Procs :
       RejectsUnknownLobby(p)
         => /\ pc'[p] = "done"
            /\ resp'[p] =
                 <<IF /\ variant = "sql"
                      /\ req[p].op = "postMessage"
                      /\ Len(req[p].MessageString) > MAX_MSG_LEN
                   THEN ErrorBody(400, MessageTooLong)
                   ELSE UnknownLobby(p)>>
            /\ UNCHANGED store]_vars

\* a call rejected for its lobby id while another lobby exists
C7_Witness ==
  \E p \in Procs :
    /\ pc[p] = "done"
    /\ req[p].op \in {"postMessage", "enterLobby"}
    /\ req[p].LobbyId \notin lobbies
    /\ lobbies # {}
    /\ resp[p] = <<UnknownLobby(p)>>

RetLabels == {"f_ret", "pm_ret", "el_ret"}

\* C10: no response carries a view of a lobby id that is not in lobbies;
\* constructLobbyData fails exactly when its id is not in lobbies, and the
\* handler then answers with the lobby-not-found error and otherwise with the
\* view of that id.
C10_NoViewForUnknownLobby ==
  /\ [](\A p \in Procs : \A k \in 1..Len(resp[p]) :
          resp[p][k].kind = "view" => resp[p][k].id \in lobbies)
  /\ [][\A p \in Procs :
          (pc[p] = "cld_exists" /\ pc'[p] # "cld_exists")
            => IF req[p].LobbyId \in lobbies
               THEN pc'[p] = "cld_msgs" /\ ~loc'[p].err
               ELSE pc'[p] \in RetLabels /\ loc'[p].err]_vars
  /\ [][\A p \in Procs :
          (pc[p] \in RetLabels /\ pc'[p] = "done")
            => LET last == resp'[p][Len(resp'[p])] IN
               IF loc[p].err
               THEN last.kind = "error" /\ last.message = LobbyNotFound
               ELSE last.kind = "view" /\ last.id = req[p].LobbyId]_vars

\* fetchLobbyData answered 404 for an id that is not a lobby, while a lobby
\* exists
C10_Witness ==
  \E p \in Procs :
    /\ Finished(p, "fetchLobbyData")
    /\ req[p].LobbyId \notin lobbies
    /\ lobbies # {}
    /\ resp[p] = <<ErrorBody(404, LobbyNotFound)>>

\* ----------------------------------------------------------------------- C2
\* C2, for the in-memory build: an updateTyping call that has locked
\* senderMutex and names a (name, lobbyId) with a sender record returns 200,
\* wherever the record sits in senders (unless the runtime aborts the process).
C2_TypingUpdateReturns ==
  \A p \in Procs :
    (/\ variant = "mem"
     /\ pc[p] \in {"ut_scan", "ut_body"}
     /\ HasSender(req[p].Username, req[p].LobbyId))
      ~> (crashed \/ (Finished(p, "updateTyping") /\ Status(p) = 200))

\* ----------------------------------------------------------------------- C3
\* C3: an updateTyping call that returns while senders holds no record for its
\* (name, lobbyId) answers 404 and has left senders as it was.
C3_AbsentSenderNotFound ==
  [][\A p \in Procs :
       (/\ pc[p] = "ut_ret"
        /\ pc'[p] = "done"
        /\ ~HasSender(req[p].Username, req[p].LobbyId))
         => /\ resp'[p][1].code = 404
            /\ resp'[p][1].kind = "error"
            /\ senders' = senders]_vars

\* ----------------------------------------------------------------------- C4
\* C4: every request a goroutine has started to serve is eventually answered
\* (unless the runtime aborts the process).
C4_EveryCallCompletes ==
  \A p \in Procs :
    (pc[p] \notin {"idle", "done"}) ~> (crashed \/ pc[p] = "done")

\* ----------------------------------------------------------------------- C9
\* C9: a postMessage with a body of more than 512 characters and an
\* enterLobby with a name of more than 32 characters are answered 400, and no
\* stored message or sender carries such a body or name.
C9_LengthLimits ==
  /\ \A p \in Procs :
       (/\ pc[p] = "done"
        /\ \/ req[p].op = "postMessage" /\ Len(req[p].MessageString) > MAX_MSG_LEN
           \/ req[p].op = "enterLobby" /\ Len(req[p].Username) > MAX_USERNAME_LEN)
         => (Status(p) = 400 /\ resp[p][1].kind = "error")
  /\ \A k \in 1..Len(messages) : Len(messages[k].MessageString) <= MAX_MSG_LEN
  /\ \A i \in 1..Len(senders) : Len(senders[i].Username) <= MAX_USERNAME_LEN

\* ---------------------------------------------------------------------- C11
\* no handler other than p's is running
Quiescent(p) == \A q \in Procs \ {p} : pc[q] \in {"idle", "done"}

C12_FailureOnlyOnCollision ==
  [][\A p \in Procs :
       (pc[p] = "cl_loop" /\ pc'[p] # "cl_loop")
         => IF loc[p].id \in lobbies
            THEN /\ pc'[p] = "done"
                 /\ resp'[p] = <<ErrorBody(500, NoUniqueId)>>
            ELSE /\ pc'[p] \in {"cl_writing", "cl_ret"}
                 /\ (loc[p].id \in lobbies' \/ loc'[p].err)]_vars

\* ---------------------------------------------------------------------- C13
\* C13: a handler that has returned holds no mutex, and while no handler is
\* executing msgMutex, lobbyMutex and senderMutex are all free.
C13_MutexesReleased ==
  /\ \A p \in Procs : pc[p] \in {"idle", "done"} => held[p] = {}
  /\ (\A p \in Procs : pc[p] \in {"idle", "done"})
       => (~msgMutex /\ ~lobbyMutex /\ ~senderMutex)

\* ---------------------------------------------------------------------- C14
\* C14: no handler reads messages while another handler, holding msgMutex, is
\* in the middle of its append to messages, and no handler reads senders
\* while another handler, holding senderMutex, is in the middle of its append
\* to senders.
C14_ReadsSerialized ==
  /\ [][\A p \in Procs :
          (pc[p] = "cld_msgs" /\ pc'[p] = "cld_senders")
            => ~\E q \in Procs \ {p} :
                  "msgMutex" \in held[q] /\ pc[q] = "pm_appending"]_vars
  /\ [][\A p \in Procs :
          (pc[p] = "cld_senders" /\ pc'[p] \in RetLabels)
            => ~\E q \in Procs \ {p} :
                  "senderMutex" \in held[q] /\ pc[q] = "el_appending"]_vars

\* ---------------------------------------------------------------------- C15
\* the mutex p's handler is about to lock, "" when it is not at a Lock()
WaitsFor(p) ==
  CASE pc[p] = "pm_lock" -> "msgMutex"
    [] pc[p] = "cl_lock" -> "lobbyMutex"
    [] pc[p] \in {"el_lock", "ut_lock"} -> "senderMutex"
    [] OTHER -> ""

\* C15: no handler holds two of msgMutex, lobbyMutex and senderMutex at once,
\* a handler at a Lock() holds no mutex, and no two handlers each wait for a
\* mutex the other holds.
C15_NoTwoMutexes ==
  /\ \A p \in Procs : Cardinality(held[p]) <= 1
  /\ \A p \in Procs : WaitsFor(p) # "" => held[p] = {}
  /\ ~\E p, q \in Procs :
        /\ p # q
        /\ WaitsFor(p) \in held[q]
        /\ WaitsFor(q) \in held[p]

\* two handlers inside critical sections of different mutexes at once
C15_Witness ==
  \E p, q \in Procs :
    /\ held[p] = {"msgMutex"}
    /\ held[q] = {"senderMutex"}
    /\ pc[p] \notin {"idle", "done"}
    /\ pc[q] \notin {"idle", "done"}

\* ---------------------------------------------------------------------- C16
\* the part of enterLobby from the scan of senders to the end of its append
JoinSection == {"el_add", "el_append", "el_appending"}

C17_StoredLobbyIdsExist ==
  /\ \A k \in 1..Len(messages) : messages[k].LobbyId \in lobbies
  /\ \A i \in 1..Len(senders) : senders[i].LobbyId \in lobbies

\* a message and a sender are stored while an id of the pool is not a lobby
C17_Witness ==
  /\ messages # <<>>
  /\ senders # <<>>
  /\ lobbies # Pool

\* ---------------------------------------------------------------------- C18
\* C18: no step removes a lobby id; every step leaves the messages stored
\* before it as a prefix of messages, unchanged in all fields; every step
\* leaves each sender record in place under its name and lobby id.
C18_StoreOnlyGrows ==
  [][/\ lobbies \subseteq lobbies'
     /\ Len(messages') >= Len(messages)
     /\ \A k \in 1..Len(messages) : messages'[k] = messages[k]
     /\ Len(senders') >= Len(senders)
     /\ \A i \in 1..Len(senders) :
          /\ senders'[i].Username = senders[i].Username
          /\ senders'[i].LobbyId = senders[i].LobbyId]_vars

\* a second lobby was created, and a message and a sender are stored
C18_Witness ==
  /\ Cardinality(lobbies) = 2
  /\ Len(messages) >= 1
  /\ Len(senders) >= 1

\* ---------------------------------------------------------------------- C19
\* C19: a step that changes a stored sender record is the step of an
\* updateTyping handler whose request names that record's name and lobby id;
\* it sets the record's isTyping to the requested value and changes nothing
\* else of the record, no message, no lobby and no other stored collection
\* size.  No step of an updateTyping handler changes messages or lobbies.
C19_TypingFrame ==
  /\ [][\A i \in 1..Len(senders) :
          senders'[i] # senders[i]
            => \E p \in Procs :
                 /\ req[p].op = "updateTyping"
                 /\ pc[p] \in {"ut_scan", "ut_body"}
                 /\ pc'[p] = "ut_ret"
                 /\ req[p].Username = senders[i].Username
                 /\ req[p].LobbyId = senders[i].LobbyId
                 /\ senders'[i] =
                      [senders[i] EXCEPT !.IsTyping = req[p].IsTyping]
                 /\ Len(senders') = Len(senders)]_vars
  /\ [][\A p \in Procs :
          (req[p].op = "updateTyping" /\ pc[p] # "done" /\ pc'[p] # pc[p])
            => /\ messages' = messages
               /\ lobbies' = lobbies
               /\ nextMessageId' = nextMessageId
               /\ Len(senders') = Len(senders)
               /\ \A i \in 1..Len(senders) :
                    (senders[i].Username # req[p].Username
                       \/ senders[i].LobbyId # req[p].LobbyId)
                      => senders'[i] = senders[i]]_vars

\* an updateTyping call has returned; of two stored senders the first is
\* typing and the second is not
C19_Witness ==
  /\ \E p \in Procs : Finished(p, "updateTyping") /\ Status(p) = 200
  /\ Len(senders) = 2
  /\ senders[1].IsTyping
  /\ ~senders[2].IsTyping

\* ---------------------------------------------------------------------- C20
\* C20: the step of enterLobby that stores a sender runs for a pair without a
\* record in a lobby that exists, and appends the request's name and lobby id
\* with isTyping false; a successful enterLobby that stored a sender returns
\* a view holding that sender with isTyping false.
C20_JoinStartsNotTyping ==
  /\ [][\A p \in Procs :
          (pc[p] = "el_append" /\ pc'[p] # pc[p] /\ senders' # senders)
            => /\ ~HasSender(req[p].Username, req[p].LobbyId)
               /\ req[p].LobbyId \in lobbies
               /\ senders' =
                    Append(senders, [Username |-> req[p].Username,
                                     LobbyId |-> req[p].LobbyId,
                                     IsTyping |-> FALSE])]_vars
  /\ [](\A p \in Procs :
          (Finished(p, "enterLobby") /\ Status(p) = 200 /\ loc[p].add)
            => /\ resp[p][1].kind = "view"
               /\ \E k \in 1..Len(resp[p][1].sndrs) :
                    resp[p][1].sndrs[k] =
                      [Username |-> req[p].Username, LobbyId |-> req[p].LobbyId,
                       IsTyping |-> FALSE])

\* a first join that asked for isTyping true was answered with the view
C20_Witness ==
  \E p \in Procs :
    /\ Finished(p, "enterLobby")
    /\ Status(p) = 200
    /\ loc[p].add
    /\ req[p].IsTyping
    /\ HasSender(req[p].Username, req[p].LobbyId)
    /\ Len(resp[p][1].sndrs) >= 1

====
